---- MODULE Spec2Model ----
(***************************************************************************)
(* GiggleGram (src/app.js): three screens, two fetch-and-render routines   *)
(* (showNewJoke, showNewQuote), the "Funny!" feedback button and the       *)
(* DOMContentLoaded bootstrap, modelled as one state machine.              *)
(*                                                                         *)
(* JavaScript runs handlers one at a time to their first await; every      *)
(* action below is one such run-to-suspension step: a click handler, the   *)
(* continuation after `await fetch(...)`, the continuation after           *)
(* `await response.json()`, or a timer callback.                           *)
(***************************************************************************)
EXTENDS Integers, Sequences, FiniteSets, TLC

\* ------------------------------------------------------------------ bounds
\* Invocations of one fetcher over a run (the code has no limit).
MaxCalls == 2
\* Timers of the feedback button pending at once (the code has no limit).
MaxTimers == 3
\* Clock steps the model divides the feedback button's delay into.
TicksPerDelay == 3
\* Records in a quote response body (the API returns one; the code reads [0]).
MaxRecords == 2

\* ------------------------------------------------------------------ values
\* Field values a response body may carry.
Texts == {"a", "b"}
\* What a template literal renders for a missing property: String(undefined).
Undefined == "undefined"

Screens == {"homeScreen", "jokeScreen", "quoteScreen"}

\* API_CONFIG.quote.key: the placeholder the comment asks to replace, the empty
\* string, and the key the file ships with.
PlaceholderKey == "YOUR_API_KEY"
Keys == {PlaceholderKey, "", "31QJlR8WDfEauP3gVEZyLY4qYuFalrvf2BHDurq8"}

\* HTTP statuses the endpoints may answer with.
Statuses == {200, 401, 403, 404, 500}
\* response.ok: status in the range 200-299.
ResponseOk(status) == status >= 200 /\ status <= 299

\* Error messages raised by the runtime, not by app.js: a rejected fetch(), a
\* body that is not JSON, a property read on undefined, a property read on null.
FetchFailedMsg == <<"Failed to fetch">>
JsonSyntaxMsg == <<"Unexpected token in JSON">>
UndefinedReadMsg == <<"Cannot read properties of undefined">>
NullReadMsg == <<"Cannot read properties of null">>
\* new Error(`HTTP error! status: ${response.status}`)
HttpErrorMsg(status) == <<"HTTP error! status: ", ToString(status)>>
\* new Error('Authentication failed. Is your API key correct?')
AuthErrorMsg == <<"Authentication failed. Is your API key correct?">>

\* A parsed JSON object is a function from the property names it has to their
\* values; obj.name is Undefined when the property is missing.
Objects(names) == UNION {[d -> Texts] : d \in SUBSET names}
Get(obj, name) == IF name \in DOMAIN obj THEN obj[name] ELSE Undefined

\* Bodies response.json() may yield: a rejection (not JSON), null, an object
\* (joke), a sequence of objects (quote).
BadBody == [t |-> "bad"]
NullBody == [t |-> "null"]
JokeBodies ==
    {BadBody, NullBody} \cup {[t |-> "obj", v |-> o] : o \in Objects({"setup", "punchline"})}
QuoteRecords == Objects({"quote", "author"})
\* The code reads the first record only: the first may lack fields, the records
\* after it carry both.
LaterRecords == {r \in QuoteRecords : DOMAIN r = {"quote", "author"}}
QuoteArrays ==
    {<<>>} \cup {<<first>> \o rest : first \in QuoteRecords,
                                    rest \in UNION {[1..n -> LaterRecords] : n \in 0..(MaxRecords - 1)}}
QuoteBodies == {BadBody, NullBody} \cup {[t |-> "arr", v |-> a] : a \in QuoteArrays}

\* Content of a text container: how it was written (innerHTML or textContent)
\* and the texts it shows, in order.
Html(parts) == [kind |-> "html", parts |-> parts]
Text(parts) == [kind |-> "text", parts |-> parts]
\* What the page's markup holds before any fetch.
InitialContent == Html(<<>>)
JokeLoading == Html(<<"Getting a new giggle...">>)
JokeHtml(setup, punchline) == Html(<<setup, punchline>>)
JokeErrorText == Text(<<"Oops! Couldn't fetch a joke. Please try again.">>)
QuoteLoading == Html(<<"Fetching some wisdom...">>)
QuoteInstructions ==
    Html(<<"Please add your API key in the script!",
           "You can get a free one from api-ninjas.com">>)
QuoteHtml(quote, author) == Html(<<quote, author>>)
\* `Oops! ${error.message}`
QuoteErrorText(message) == Text(<<"Oops! ">> \o message)

\* The feedback button's label in the markup (the "Funny!" button), and the
\* acknowledgment, which in the source ends with an emoji.
OriginalLabel == "Funny!"
AckLabel == "Haha!"
DimClasses == {"cursor-not-allowed", "opacity-50"}
\* setTimeout(..., 1500)
FunnyDelayMs == 1500
TickMs == FunnyDelayMs \div TicksPerDelay

\* No outcome yet (history variables).
NoOutcome == [kind |-> "none", parts |-> <<>>]

VARIABLES
    listeners,      \* how many times bindEventListeners has run
    hidden,         \* screen -> whether its classList has 'hidden'
    apiKey,         \* API_CONFIG.quote.key
    jokeCalls,      \* one entry per showNewJoke call that reached fetch(): its position
    jokeDisplay,    \* DOM.jokeTextContainer's content
    jokeHist,       \* history: outcome of the last call to settle, of the latest call
                    \* started, how many calls were started and requests issued
    quoteCalls,     \* one entry per showNewQuote call that reached fetch()
    quoteDisplay,   \* DOM.quoteTextContainer's content
    quoteHist,      \* history, as jokeHist
    funnyLabel,     \* DOM.funnyButton.textContent
    funnyClasses,   \* DOM.funnyButton.classList, the two classes the handler touches
    timers          \* pending setTimeout callbacks, oldest first: each its captured
                    \* originalText and the time left until it is due

vars == <<listeners, hidden, apiKey, jokeCalls, jokeDisplay, jokeHist,
          quoteCalls, quoteDisplay, quoteHist, funnyLabel, funnyClasses, timers>>

jokeVars == <<jokeCalls, jokeDisplay, jokeHist>>
quoteVars == <<quoteCalls, quoteDisplay, quoteHist>>
funnyVars == <<funnyLabel, funnyClasses, timers>>

\* A call's position: awaiting fetch(), awaiting response.json(), or its promise
\* settled.
InFlightPcs == {"fetch", "json"}
InFlight(calls) == {i \in 1..Len(calls) : calls[i] \in InFlightPcs}

\* The screens' classes in the page's markup: Home is shown at startup.
InitialHidden == [s \in Screens |-> s # "homeScreen"]

NoHist == [last |-> NoOutcome, latest |-> NoOutcome, settledHidden |-> FALSE,
           started |-> 0, requests |-> 0]

Init ==
    /\ listeners = 0
    /\ hidden = InitialHidden
    /\ apiKey \in Keys
    /\ jokeCalls = <<>>
    /\ jokeDisplay = InitialContent
    /\ jokeHist = NoHist
    /\ quoteCalls = <<>>
    /\ quoteDisplay = InitialContent
    /\ quoteHist = NoHist
    /\ funnyLabel = OriginalLabel
    /\ funnyClasses = {}
    /\ timers = <<>>

\* Mutant: the ready signal is handled a second time and the listeners are added
\* again.
DOMContentLoadedAgain ==
    /\ listeners < 2
    /\ listeners' = listeners + 1
    /\ UNCHANGED <<hidden, apiKey, jokeCalls, jokeDisplay, jokeHist,
                   quoteCalls, quoteDisplay, quoteHist, funnyLabel, funnyClasses, timers>>

\* ------------------------------------------------------------ bootstrap
\* document.addEventListener('DOMContentLoaded', GiggleGramApp.init): the event
\* fires once per document, init calls bindEventListeners.
DOMContentLoaded ==
    /\ listeners = 0
    /\ listeners' = listeners + 1
    /\ UNCHANGED <<hidden, apiKey, jokeVars, quoteVars, funnyVars>>

\* A click runs a handler only once bindEventListeners has added it.
Bound == listeners > 0

\* ------------------------------------------------------------ screens
\* Mutant: the target is shown and the other screens are left as they are.
DisplayScreenShowOnly(screenToShow) ==
    hidden' = [hidden EXCEPT ![screenToShow] = FALSE]

\* Mutant: toggle without its force argument on the other screens; each of them
\* flips.
DisplayScreenFlip(screenToShow) ==
    hidden' = [s \in Screens |-> IF s = screenToShow THEN FALSE ELSE ~hidden[s]]

\* displayScreen: classList.toggle('hidden', screen !== screenToShow) on each.
DisplayScreen(screenToShow) ==
    hidden' = [s \in Screens |-> s # screenToShow]

\* ------------------------------------------------------------ joke fetcher
\* Mutant: the loading placeholder is not written; the old content stays until
\* the response arrives.
ShowNewJokeKeepContent ==
    /\ Len(jokeCalls) < MaxCalls
    /\ jokeDisplay' = jokeDisplay
    /\ jokeCalls' = Append(jokeCalls, "fetch")
    /\ jokeHist' = [jokeHist EXCEPT !.latest = NoOutcome, !.started = @ + 1,
                                    !.requests = @ + 1]

\* The synchronous part of showNewJoke: the loading placeholder is written, then
\* fetch(API_CONFIG.joke.url) is issued and the function suspends.
ShowNewJoke ==
    /\ Len(jokeCalls) < MaxCalls
    /\ jokeDisplay' = JokeLoading
    /\ jokeCalls' = Append(jokeCalls, "fetch")
    /\ jokeHist' = [jokeHist EXCEPT !.latest = NoOutcome, !.started = @ + 1,
                                    !.requests = @ + 1]

\* Mutant: a call that is no longer the latest one started drops its result.
JokeSettleLatestOnly(i, content, pc) ==
    /\ jokeDisplay' = IF i = Len(jokeCalls) THEN content ELSE jokeDisplay
    /\ jokeCalls' = [jokeCalls EXCEPT ![i] = pc]
    /\ jokeHist' = [jokeHist EXCEPT !.last = content,
                                    !.latest = IF i = Len(jokeCalls) THEN content ELSE @,
                                    !.settledHidden = @ \/ hidden["jokeScreen"]]

\* Call i writes `content` into the container and its promise settles as `pc`.
JokeSettle(i, content, pc) ==
    /\ jokeDisplay' = content
    /\ jokeCalls' = [jokeCalls EXCEPT ![i] = pc]
    /\ jokeHist' = [jokeHist EXCEPT !.last = content,
                                    !.latest = IF i = Len(jokeCalls) THEN content ELSE @,
                                    !.settledHidden = @ \/ hidden["jokeScreen"]]

\* Mutant: a failed call is sent again (up to a cap) instead of reporting.
JokeCatchRetry(i, message) ==
    IF jokeHist.requests <= MaxCalls
       THEN /\ jokeDisplay' = jokeDisplay
            /\ jokeCalls' = [jokeCalls EXCEPT ![i] = "fetch"]
            /\ jokeHist' = [jokeHist EXCEPT !.requests = @ + 1]
       ELSE JokeSettle(i, JokeErrorText, "fulfilled")

\* Mutant: the error is logged and nothing is written into the container.
JokeCatchLogOnly(i, message) ==
    /\ jokeDisplay' = jokeDisplay
    /\ jokeCalls' = [jokeCalls EXCEPT ![i] = "fulfilled"]
    /\ jokeHist' = jokeHist

\* catch (error): console.error, then the fixed text; the async function returns.
JokeCatch(i, message) == JokeSettle(i, JokeErrorText, "fulfilled")

\* Mutant: the two fields are written in the wrong order.
JokeRenderSwapped(jokeData) == JokeHtml(Get(jokeData, "punchline"), Get(jokeData, "setup"))

\* The template literal written on success: `${jokeData.setup}`, `${jokeData.punchline}`.
JokeRender(jokeData) == JokeHtml(Get(jokeData, "setup"), Get(jokeData, "punchline"))

\* await fetch(...) rejects: a transport failure.
JokeFetchRejects(i) ==
    /\ i \in 1..Len(jokeCalls)
    /\ jokeCalls[i] = "fetch"
    /\ JokeCatch(i, FetchFailedMsg)

\* await fetch(...) resolves with a response: a non-ok status throws, an ok one
\* goes on to await response.json().
JokeFetchResolves(i, status) ==
    /\ i \in 1..Len(jokeCalls)
    /\ jokeCalls[i] = "fetch"
    /\ IF ~ResponseOk(status)
          THEN JokeCatch(i, HttpErrorMsg(status))
          ELSE /\ jokeCalls' = [jokeCalls EXCEPT ![i] = "json"]
               /\ UNCHANGED <<jokeDisplay, jokeHist>>

\* await response.json() settles: a rejection (not JSON) and a property read on
\* null throw into the catch; any object is rendered.
JokeJsonResolves(i, body) ==
    /\ i \in 1..Len(jokeCalls)
    /\ jokeCalls[i] = "json"
    /\ CASE body.t = "bad" -> JokeCatch(i, JsonSyntaxMsg)
         [] body.t = "null" -> JokeCatch(i, NullReadMsg)
         [] OTHER -> JokeSettle(i, JokeRender(body.v), "fulfilled")

\* ------------------------------------------------------------ quote fetcher
\* Mutant: only the placeholder is recognised, not the empty key.
KeyMissingPlaceholderOnly(key) == key = PlaceholderKey

\* if (API_CONFIG.quote.key === 'YOUR_API_KEY' || API_CONFIG.quote.key === '')
KeyMissing(key) == key = PlaceholderKey \/ key = ""

\* The synchronous part of showNewQuote: the loading placeholder is written; with
\* the placeholder or an empty key the instructions replace it and the function
\* returns; otherwise fetch(url, {headers}) is issued and the function suspends.
ShowNewQuote ==
    /\ quoteHist.started < MaxCalls
    /\ IF KeyMissing(apiKey)
          THEN /\ quoteDisplay' = QuoteInstructions
               /\ quoteCalls' = quoteCalls
               /\ quoteHist' = [quoteHist EXCEPT !.last = QuoteInstructions,
                                                 !.latest = QuoteInstructions,
                                                 !.started = @ + 1]
          ELSE /\ quoteDisplay' = QuoteLoading
               /\ quoteCalls' = Append(quoteCalls, "fetch")
               /\ quoteHist' = [quoteHist EXCEPT !.latest = NoOutcome, !.started = @ + 1,
                                                 !.requests = @ + 1]

\* Mutant: a call whose screen is hidden when it resumes drops its result.
QuoteSettleIfVisible(i, content, pc) ==
    /\ quoteDisplay' = IF hidden["quoteScreen"] THEN quoteDisplay ELSE content
    /\ quoteCalls' = [quoteCalls EXCEPT ![i] = pc]
    /\ quoteHist' = [quoteHist EXCEPT !.last = content,
                                      !.latest = IF i = Len(quoteCalls) THEN content ELSE @,
                                      !.settledHidden = @ \/ hidden["quoteScreen"]]

\* Mutant: a call that is no longer the latest one started drops its result.
QuoteSettleLatestOnly(i, content, pc) ==
    /\ quoteDisplay' = IF i = Len(quoteCalls) THEN content ELSE quoteDisplay
    /\ quoteCalls' = [quoteCalls EXCEPT ![i] = pc]
    /\ quoteHist' = [quoteHist EXCEPT !.last = content,
                                      !.latest = IF i = Len(quoteCalls) THEN content ELSE @,
                                      !.settledHidden = @ \/ hidden["quoteScreen"]]

\* Call i writes `content` into the container and its promise settles as `pc`.
QuoteSettle(i, content, pc) ==
    /\ quoteDisplay' = content
    /\ quoteCalls' = [quoteCalls EXCEPT ![i] = pc]
    /\ quoteHist' = [quoteHist EXCEPT !.last = content,
                                      !.latest = IF i = Len(quoteCalls) THEN content ELSE @,
                                      !.settledHidden = @ \/ hidden["quoteScreen"]]

\* Mutant: the error is logged and nothing is written into the container.
QuoteCatchLogOnly(i, message) ==
    /\ quoteDisplay' = quoteDisplay
    /\ quoteCalls' = [quoteCalls EXCEPT ![i] = "fulfilled"]
    /\ quoteHist' = quoteHist

\* catch (error): console.error, then `Oops! ${error.message}`; the function returns.
QuoteCatch(i, message) == QuoteSettle(i, QuoteErrorText(message), "fulfilled")

\* Mutant: 403 is not treated as an authentication failure.
QuoteStatusErrorOnly401(status) ==
    IF status = 401 THEN AuthErrorMsg ELSE HttpErrorMsg(status)

\* if (!response.ok): the error thrown for a status.
QuoteStatusError(status) ==
    IF status = 401 \/ status = 403 THEN AuthErrorMsg ELSE HttpErrorMsg(status)

\* The template literal written on success: `${quoteData.quote}`, `${quoteData.author}`.
QuoteRender(quoteData) == QuoteHtml(Get(quoteData, "quote"), Get(quoteData, "author"))

QuoteFetchRejects(i) ==
    /\ i \in 1..Len(quoteCalls)
    /\ quoteCalls[i] = "fetch"
    /\ QuoteCatch(i, FetchFailedMsg)

QuoteFetchResolves(i, status) ==
    /\ i \in 1..Len(quoteCalls)
    /\ quoteCalls[i] = "fetch"
    /\ IF ~ResponseOk(status)
          THEN QuoteCatch(i, QuoteStatusError(status))
          ELSE /\ quoteCalls' = [quoteCalls EXCEPT ![i] = "json"]
               /\ UNCHANGED <<quoteDisplay, quoteHist>>

\* Mutant: the last record of the sequence is read instead of the first.
QuoteJsonResolvesLast(i, body) ==
    /\ i \in 1..Len(quoteCalls)
    /\ quoteCalls[i] = "json"
    /\ CASE body.t = "bad" -> QuoteCatch(i, JsonSyntaxMsg)
         [] body.t = "null" -> QuoteCatch(i, NullReadMsg)
         [] body.t = "arr" /\ Len(body.v) = 0 -> QuoteCatch(i, UndefinedReadMsg)
         [] OTHER -> QuoteSettle(i, QuoteRender(body.v[Len(body.v)]), "fulfilled")

\* await response.json() settles; quoteDataArray[0] is read, then its properties:
\* null[0] throws, an empty sequence gives undefined whose property read throws.
QuoteJsonResolves(i, body) ==
    /\ i \in 1..Len(quoteCalls)
    /\ quoteCalls[i] = "json"
    /\ CASE body.t = "bad" -> QuoteCatch(i, JsonSyntaxMsg)
         [] body.t = "null" -> QuoteCatch(i, NullReadMsg)
         [] body.t = "arr" /\ Len(body.v) = 0 -> QuoteCatch(i, UndefinedReadMsg)
         [] OTHER -> QuoteSettle(i, QuoteRender(body.v[1]), "fulfilled")

\* ------------------------------------------------------------ feedback button
\* handleFunnyButtonClick: the current label is captured, the acknowledgment and
\* the two classes are set, and a timer is started that restores the captured
\* label and removes the classes. The handler tests nothing before it acts.
HandleFunnyButtonClick ==
    /\ Len(timers) < MaxTimers
    /\ funnyLabel' = AckLabel
    /\ funnyClasses' = funnyClasses \cup DimClasses
    /\ timers' = Append(timers, [originalText |-> funnyLabel, left |-> FunnyDelayMs])

\* The setTimeout callback: textContent = originalText, the classes removed.
TimerCallback(originalText) ==
    /\ funnyLabel' = originalText
    /\ funnyClasses' = funnyClasses \ DimClasses

\* The oldest pending timer is due and its callback runs. All timers have the
\* same delay, so they come due in the order they were set.
TimerFires ==
    /\ timers # <<>>
    /\ Head(timers).left = 0
    /\ TimerCallback(Head(timers).originalText)
    /\ timers' = Tail(timers)
    /\ UNCHANGED <<listeners, hidden, apiKey, jokeVars, quoteVars>>

\* Wall-clock time passes while a timer is pending; a due timer runs before more
\* time passes.
Tick ==
    /\ timers # <<>>
    /\ \A k \in 1..Len(timers) : timers[k].left > 0
    /\ timers' = [k \in 1..Len(timers) |->
                    [timers[k] EXCEPT !.left = IF @ > TickMs THEN @ - TickMs ELSE 0]]
    /\ UNCHANGED <<listeners, hidden, apiKey, jokeVars, quoteVars, funnyLabel, funnyClasses>>

\* ------------------------------------------------------------ click handlers
\* Mutant: 'another joke' is wired like 'get joke' with the Home screen as target.
AnotherJokeClickToHome ==
    /\ Bound
    /\ ShowNewJoke
    /\ DisplayScreen("homeScreen")
    /\ UNCHANGED <<listeners, apiKey, quoteVars, funnyVars>>

\* getJokeButton: showNewJoke(); displayScreen(DOM.jokeScreen).
GetJokeClick ==
    /\ Bound
    /\ ShowNewJoke
    /\ DisplayScreen("jokeScreen")
    /\ UNCHANGED <<listeners, apiKey, quoteVars, funnyVars>>

\* getQuoteButton: showNewQuote(); displayScreen(DOM.quoteScreen).
GetQuoteClick ==
    /\ Bound
    /\ ShowNewQuote
    /\ DisplayScreen("quoteScreen")
    /\ UNCHANGED <<listeners, apiKey, jokeVars, funnyVars>>

\* Any .back-button: displayScreen(DOM.homeScreen).
GoBackClick ==
    /\ Bound
    /\ DisplayScreen("homeScreen")
    /\ UNCHANGED <<listeners, apiKey, jokeVars, quoteVars, funnyVars>>

AnotherJokeClick ==
    /\ Bound
    /\ ShowNewJoke
    /\ UNCHANGED <<listeners, hidden, apiKey, quoteVars, funnyVars>>

AnotherQuoteClick ==
    /\ Bound
    /\ ShowNewQuote
    /\ UNCHANGED <<listeners, hidden, apiKey, jokeVars, funnyVars>>

FunnyClick ==
    /\ Bound
    /\ HandleFunnyButtonClick
    /\ UNCHANGED <<listeners, hidden, apiKey, jokeVars, quoteVars>>

\* ------------------------------------------------------------ network steps
JokeRejected ==
    /\ \E i \in 1..MaxCalls : JokeFetchRejects(i)
    /\ UNCHANGED <<listeners, hidden, apiKey, quoteVars, funnyVars>>

JokeResponded ==
    /\ \E i \in 1..MaxCalls, status \in Statuses : JokeFetchResolves(i, status)
    /\ UNCHANGED <<listeners, hidden, apiKey, quoteVars, funnyVars>>

JokeParsed ==
    /\ \E i \in 1..MaxCalls, body \in JokeBodies : JokeJsonResolves(i, body)
    /\ UNCHANGED <<listeners, hidden, apiKey, quoteVars, funnyVars>>

\* Mutant: the quote fetcher's catch writes its message into the joke container.
QuoteRejectedWrongContainer ==
    /\ \E i \in 1..MaxCalls :
          /\ i \in 1..Len(quoteCalls)
          /\ quoteCalls[i] = "fetch"
          /\ jokeDisplay' = QuoteErrorText(FetchFailedMsg)
          /\ quoteCalls' = [quoteCalls EXCEPT ![i] = "fulfilled"]
          /\ UNCHANGED <<quoteDisplay, quoteHist>>
    /\ UNCHANGED <<listeners, hidden, apiKey, jokeCalls, jokeHist, funnyVars>>

QuoteRejected ==
    /\ \E i \in 1..MaxCalls : QuoteFetchRejects(i)
    /\ UNCHANGED <<listeners, hidden, apiKey, jokeVars, funnyVars>>

QuoteResponded ==
    /\ \E i \in 1..MaxCalls, status \in Statuses : QuoteFetchResolves(i, status)
    /\ UNCHANGED <<listeners, hidden, apiKey, jokeVars, funnyVars>>

QuoteParsed ==
    /\ \E i \in 1..MaxCalls, body \in QuoteBodies : QuoteJsonResolves(i, body)
    /\ UNCHANGED <<listeners, hidden, apiKey, jokeVars, funnyVars>>

Next ==
    \/ DOMContentLoaded
    \/ GetJokeClick
    \/ GetQuoteClick
    \/ GoBackClick
    \/ AnotherJokeClick
    \/ AnotherQuoteClick
    \/ FunnyClick
    \/ TimerFires
    \/ Tick
    \/ JokeRejected
    \/ JokeResponded
    \/ JokeParsed
    \/ QuoteRejected
    \/ QuoteResponded
    \/ QuoteParsed

Spec == Init /\ [][Next]_vars

\* ------------------------------------------------------------ scopes
\* The whole program with MaxCalls calls of each fetcher and the feedback
\* button's clock is too large to enumerate; the claims are checked under parts
\* of Next, each with all the actions of the code it covers.

\* The screens and both fetchers, interleaved, in sessions of at most MaxCalls
\* fetches in all.
FetchesLeft == jokeHist.started + quoteHist.started < MaxCalls

NextFetchers ==
    \/ DOMContentLoaded
    \/ GoBackClick
    \/ FetchesLeft /\ GetJokeClick
    \/ FetchesLeft /\ AnotherJokeClick
    \/ FetchesLeft /\ GetQuoteClick
    \/ FetchesLeft /\ AnotherQuoteClick
    \/ JokeRejected
    \/ JokeResponded
    \/ JokeParsed
    \/ QuoteRejected
    \/ QuoteResponded
    \/ QuoteParsed

SpecFetchers == Init /\ [][NextFetchers]_vars

\* The same sessions when every request issued eventually gets its response or
\* its failure and every response body is eventually read or fails to parse: a
\* call awaiting fetch() or response.json() is eventually resumed.
SpecFetchersFair ==
    /\ SpecFetchers
    /\ WF_vars(JokeRejected \/ JokeResponded \/ JokeParsed)
    /\ WF_vars(QuoteRejected \/ QuoteResponded \/ QuoteParsed)

\* Everything interleaved, in sessions where the fetches started and the timers
\* pending never exceed MaxCalls together.
ActivationsLeft == jokeHist.started + quoteHist.started + Len(timers) < MaxCalls

NextAll ==
    \/ DOMContentLoaded
    \/ GoBackClick
    \/ ActivationsLeft /\ GetJokeClick
    \/ ActivationsLeft /\ AnotherJokeClick
    \/ ActivationsLeft /\ GetQuoteClick
    \/ ActivationsLeft /\ AnotherQuoteClick
    \/ ActivationsLeft /\ FunnyClick
    \/ TimerFires
    \/ Tick
    \/ JokeRejected
    \/ JokeResponded
    \/ JokeParsed
    \/ QuoteRejected
    \/ QuoteResponded
    \/ QuoteParsed

SpecAll == Init /\ [][NextAll]_vars

\* The feedback button and its clock.
NextFunny ==
    \/ DOMContentLoaded
    \/ FunnyClick
    \/ TimerFires
    \/ Tick

SpecFunny == Init /\ [][NextFunny]_vars

\* ================================================================ claims

Idle(calls) == InFlight(calls) = {}

\* C1 (as stated): whenever no fetch of a screen is in flight, the screen's
\* display is the outcome of the most recently invoked fetch for it.
C1_LatestInvokedShown ==
    /\ (jokeHist.started > 0 /\ Idle(jokeCalls)) => jokeDisplay = jokeHist.latest
    /\ (quoteHist.started > 0 /\ Idle(quoteCalls)) => quoteDisplay = quoteHist.latest

\* C1 (amended): whenever no fetch of a screen is in flight, the screen's display
\* is the outcome of the fetch that settled last, which can be an earlier
\* invocation than the latest one.
C1_LastSettledShown ==
    /\ (jokeHist.started > 0 /\ Idle(jokeCalls)) => jokeDisplay = jokeHist.last
    /\ (quoteHist.started > 0 /\ Idle(quoteCalls)) => quoteDisplay = quoteHist.last

\* Two quote fetches overlapped and the one started first settled last, with
\* another outcome than the second.
C1_Witness ==
    /\ Len(quoteCalls) = 2
    /\ Idle(quoteCalls)
    /\ quoteDisplay = quoteHist.last
    /\ quoteHist.last # quoteHist.latest

\* C2 (as stated): a click on the feedback button while one of its timers is
\* pending changes neither the label, nor the dimming classes, nor the timers.
C2_ReactivationBlocked ==
    [][(timers # <<>> /\ FunnyClick) => UNCHANGED <<funnyLabel, funnyClasses, timers>>]_vars

\* C3 (as stated): with no timer pending the button shows its original label and
\* is not dimmed.
C3_IdleRestored ==
    timers = <<>> => (funnyLabel = OriginalLabel /\ funnyClasses = {})

\* C4: exactly one of the three screens is visible.
C4_ExactlyOneVisible ==
    Cardinality({s \in Screens : ~hidden[s]}) = 1

\* The quote screen was switched to while a joke fetch is outstanding.
C4_Witness ==
    /\ ~hidden["quoteScreen"]
    /\ InFlight(jokeCalls) # {}
    /\ quoteHist.started > 0

\* A joke body that does not parse, or parses to something without both fields.
JokeMalformed(body) ==
    body.t # "obj" \/ ~({"setup", "punchline"} \subseteq DOMAIN body.v)

\* C5 (as stated): whatever the failure of a joke fetch (transport, non-success
\* status, a body that does not parse, a body without setup or punchline), the
\* display becomes the fixed message and the call's promise is fulfilled.
C5_EveryFailureShowsFixedText ==
    [][\A i \in 1..MaxCalls :
         LET Absorbed == /\ jokeDisplay' = Text(<<"Oops! Couldn't fetch a joke. Please try again.">>)
                         /\ jokeCalls'[i] = "fulfilled"
         IN /\ JokeFetchRejects(i) => Absorbed
            /\ \A status \in Statuses :
                 (~ResponseOk(status) /\ JokeFetchResolves(i, status)) => Absorbed
            /\ \A body \in JokeBodies :
                 (JokeMalformed(body) /\ JokeJsonResolves(i, body)) => Absorbed]_vars

\* The content shows the message as it is.
ShowsVerbatim(content, message) ==
    \E k \in 1..Len(content.parts) :
        SubSeq(content.parts, k, k + Len(message) - 1) = message

\* C6 (as stated): the quote display never shows the text of a transport error
\* or of a malformed-response error; only the authentication / HTTP-status
\* causes are shown.
C6_RuntimeErrorNotShown ==
    \A message \in {FetchFailedMsg, JsonSyntaxMsg, UndefinedReadMsg, NullReadMsg} :
        ~ShowsVerbatim(quoteDisplay, message)

\* C7: when calls of one fetcher overlap, the display once all have settled is
\* the outcome of the one that settled last, whatever the order they were started
\* in; and starting a call leaves every earlier call where it was.
C7_LastResolvedWins ==
    /\ []((Len(jokeCalls) >= 2 /\ Idle(jokeCalls)) => jokeDisplay = jokeHist.last)
    /\ []((Len(quoteCalls) >= 2 /\ Idle(quoteCalls)) => quoteDisplay = quoteHist.last)
    /\ [][/\ Len(jokeCalls') > Len(jokeCalls) =>
                \A i \in 1..Len(jokeCalls) : jokeCalls'[i] = jokeCalls[i]
          /\ Len(quoteCalls') > Len(quoteCalls) =>
                \A i \in 1..Len(quoteCalls) : quoteCalls'[i] = quoteCalls[i]]_vars

\* Two joke fetches overlapped and the one started first settled last, with
\* another outcome than the second.
C7_Witness ==
    /\ Len(jokeCalls) = 2
    /\ Idle(jokeCalls)
    /\ jokeDisplay = jokeHist.last
    /\ jokeHist.last # jokeHist.latest

\* C8: with the placeholder or an empty key, no request is ever issued and, once
\* the quote fetcher has been invoked, the display is the instructions.
C8_MissingKeyNoRequest ==
    apiKey \in {"YOUR_API_KEY", ""} =>
        /\ quoteCalls = <<>>
        /\ quoteHist.started > 0 =>
              quoteDisplay = Html(<<"Please add your API key in the script!",
                                    "You can get a free one from api-ninjas.com">>)

\* The quote fetcher was invoked twice with an empty key.
C8_Witness ==
    /\ apiKey = ""
    /\ quoteHist.started = 2
    /\ quoteDisplay = QuoteInstructions
    /\ quoteCalls = <<>>

AuthText == Text(<<"Oops! ", "Authentication failed. Is your API key correct?">>)
GenericText(status) == Text(<<"Oops! ", "HTTP error! status: ", ToString(status)>>)

\* C9: a 401 or 403 answer puts the authentication message in the quote display,
\* any other non-success answer a message naming the status; the two differ and
\* the call's promise is fulfilled.
C9_StatusMessages ==
    [][\A i \in 1..MaxCalls, status \in Statuses :
         ((status < 200 \/ status > 299) /\ QuoteFetchResolves(i, status)) =>
             /\ quoteCalls'[i] = "fulfilled"
             /\ quoteDisplay' = IF status \in {401, 403} THEN AuthText
                                                          ELSE GenericText(status)
             /\ status \notin {401, 403} => GenericText(status) # AuthText]_vars

\* One quote call was answered 500 and an overlapping one 403.
C9_Witness ==
    /\ quoteDisplay = AuthText
    /\ quoteHist.latest = GenericText(500)

\* C10: a call in flight moves only by its own network step, never by a screen
\* switch, and when it settles it writes its outcome into the display, whether
\* or not its screen is visible, and leaves the screens as they are.
C10_NavigationDoesNotCancel ==
    [][/\ \A i \in InFlight(jokeCalls) :
            /\ i \in 1..Len(jokeCalls')
            /\ jokeCalls'[i] # jokeCalls[i] => hidden' = hidden
            /\ jokeCalls'[i] \notin InFlightPcs =>
                   jokeCalls'[i] = "fulfilled" /\ jokeDisplay' = jokeHist'.last
       /\ \A i \in InFlight(quoteCalls) :
            /\ i \in 1..Len(quoteCalls')
            /\ quoteCalls'[i] # quoteCalls[i] => hidden' = hidden
            /\ quoteCalls'[i] \notin InFlightPcs =>
                   quoteCalls'[i] = "fulfilled" /\ quoteDisplay' = quoteHist'.last]_vars

\* A single quote fetch settled while the quote screen was hidden, and its
\* outcome is in the display of the still hidden screen.
C10_Witness ==
    /\ quoteHist.started = 1
    /\ quoteHist.settledHidden
    /\ hidden["quoteScreen"]
    /\ Idle(quoteCalls)
    /\ quoteDisplay = quoteHist.last
    /\ quoteDisplay # QuoteInstructions

C12_OnlySwitchesChangeScreen ==
    [][/\ AnotherJokeClick =>
            hidden' = hidden /\ jokeHist'.started = jokeHist.started + 1
       /\ AnotherQuoteClick =>
            hidden' = hidden /\ quoteHist'.started = quoteHist.started + 1
       /\ hidden' # hidden =>
            \/ ~hidden'["jokeScreen"] /\ jokeHist'.started = jokeHist.started + 1
            \/ ~hidden'["quoteScreen"] /\ quoteHist'.started = quoteHist.started + 1
            \/ ~hidden'["homeScreen"] /\ UNCHANGED <<jokeVars, quoteVars, funnyVars>>]_vars

\* 'Another joke' started a second joke fetch while the first is outstanding,
\* with the Joke screen still the visible one.
C12_Witness ==
    /\ ~hidden["jokeScreen"]
    /\ jokeCalls = <<"fetch", "fetch">>

\* C13: a single joke fetch answered with success and the body
\* {setup: S, punchline: P} leaves exactly the pair (S, P) on display.
C13_JokeShown ==
    [][\A S \in Texts, P \in Texts :
         (/\ jokeHist.started = 1
          /\ JokeJsonResolves(1, [t |-> "obj", v |-> [setup |-> S, punchline |-> P]]))
         => jokeDisplay' = [kind |-> "html", parts |-> <<S, P>>]]_vars

\* The only joke fetch was answered with {setup: "a", punchline: "b"}.
C13_Witness ==
    /\ jokeHist.started = 1
    /\ jokeCalls = <<"fulfilled">>
    /\ jokeDisplay = Html(<<"a", "b">>)

\* C14: a single quote fetch with a usable key, answered with success and a
\* non-empty sequence whose first record is {quote: Q, author: A}, leaves exactly
\* the pair (Q, A) on display, whatever the records after the first.
C14_FirstQuoteShown ==
    [][\A array \in QuoteArrays :
         (/\ quoteHist.started = 1
          /\ apiKey \notin {"YOUR_API_KEY", ""}
          /\ Len(array) >= 1
          /\ DOMAIN array[1] = {"quote", "author"}
          /\ QuoteJsonResolves(1, [t |-> "arr", v |-> array]))
         => quoteDisplay' = [kind |-> "html", parts |-> <<array[1].quote, array[1].author>>]]_vars

\* The only quote fetch was answered and (a, b) is on display; some answers that
\* lead here carry a second record (b, a).
C14_Witness ==
    /\ quoteHist.started = 1
    /\ quoteCalls = <<"fulfilled">>
    /\ quoteDisplay = Html(<<"a", "b">>)
    /\ <<[quote |-> "a", author |-> "b"], [quote |-> "b", author |-> "a"]>> \in QuoteArrays

\* C15: displayScreen is idempotent. In every reachable state a call with a screen
\* that is showing can complete with the visibility of all three screens (and
\* everything else) as it was; and every call leaves its target showing, so a
\* second call in a row with the same target is such a call and changes nothing.
C15_SwitchIdempotent ==
    /\ [](\A s \in Screens : ~hidden[s] => ENABLED (DisplayScreen(s) /\ UNCHANGED vars))
    /\ [][/\ GetJokeClick => ~hidden'["jokeScreen"]
          /\ GetQuoteClick => ~hidden'["quoteScreen"]
          /\ GoBackClick => ~hidden'["homeScreen"]]_vars

\* The joke screen is the one showing, after displayScreen(jokeScreen) ran twice
\* or once followed by 'another joke'.
C15_Witness ==
    /\ hidden = [s \in Screens |-> s # "jokeScreen"]
    /\ jokeHist.started = 2

\* C16: the listeners are added exactly once. Before the ready signal nothing but
\* the signal changes the state, which is still the initial one; afterwards there
\* is one listener per control, so one click on 'get joke' or 'another joke' is
\* one invocation of the joke fetcher and one request, one click on 'get quote'
\* or 'another quote' is one invocation of the quote fetcher (and one request when
\* the key is usable), and one click on the feedback button sets one timer.
C16_BoundOnce ==
    /\ [](listeners \in {0, 1})
    /\ [](listeners = 0 =>
            /\ hidden = InitialHidden
            /\ jokeCalls = <<>> /\ jokeDisplay = InitialContent /\ jokeHist.started = 0
            /\ quoteCalls = <<>> /\ quoteDisplay = InitialContent /\ quoteHist.started = 0
            /\ funnyLabel = OriginalLabel /\ funnyClasses = {} /\ timers = <<>>)
    /\ [][/\ listeners = 0 => listeners' = 1
          /\ (GetJokeClick \/ AnotherJokeClick) =>
                /\ jokeHist'.started = jokeHist.started + 1
                /\ Len(jokeCalls') = Len(jokeCalls) + 1
                /\ quoteHist'.started = quoteHist.started
                /\ Len(timers') = Len(timers)
          /\ (GetQuoteClick \/ AnotherQuoteClick) =>
                /\ quoteHist'.started = quoteHist.started + 1
                /\ Len(quoteCalls') = Len(quoteCalls) + (IF apiKey \in {"YOUR_API_KEY", ""} THEN 0 ELSE 1)
                /\ jokeHist'.started = jokeHist.started
                /\ Len(timers') = Len(timers)
          /\ FunnyClick =>
                /\ Len(timers') = Len(timers) + 1
                /\ jokeHist'.started = jokeHist.started
                /\ quoteHist'.started = quoteHist.started]_vars

\* After the ready signal, one click on a joke control and one on the feedback
\* button: one joke call and one pending timer.
C16_Witness ==
    /\ listeners = 1
    /\ Len(jokeCalls) = 1 /\ jokeHist.started = 1
    /\ Len(timers) = 1

\* C17: an invocation of a fetcher issues at most one request over its lifetime:
\* the requests issued number exactly the invocations of the joke fetcher, and of
\* the quote fetcher with a usable key (none without one); once a call has its
\* response it never awaits fetch again, and once it has returned it stays
\* returned, whatever the failure.
C17_NoRetry ==
    /\ [](jokeHist.requests = jokeHist.started)
    /\ [](quoteHist.requests = IF apiKey \in {"YOUR_API_KEY", ""} THEN 0 ELSE quoteHist.started)
    /\ [][/\ \A i \in 1..Len(jokeCalls) :
                /\ jokeCalls[i] = "fulfilled" => jokeCalls'[i] = "fulfilled"
                /\ jokeCalls[i] = "json" => jokeCalls'[i] # "fetch"
          /\ \A i \in 1..Len(quoteCalls) :
                /\ quoteCalls[i] = "fulfilled" => quoteCalls'[i] = "fulfilled"
                /\ quoteCalls[i] = "json" => quoteCalls'[i] # "fetch"]_vars

\* One call of each fetcher has failed and returned; one request was issued for
\* each and none is outstanding.
C17_Witness ==
    /\ jokeCalls = <<"fulfilled">> /\ jokeDisplay = JokeErrorText
    /\ jokeHist.requests = 1
    /\ quoteCalls = <<"fulfilled">> /\ quoteDisplay = QuoteErrorText(FetchFailedMsg)
    /\ quoteHist.requests = 1

\* C18: whenever a container shows its loading placeholder, a call of that
\* fetcher is still awaiting its response or its body.
C18_LoadingImpliesInFlight ==
    /\ jokeDisplay = JokeLoading =>
          \E i \in 1..Len(jokeCalls) : jokeCalls[i] \in {"fetch", "json"}
    /\ quoteDisplay = QuoteLoading =>
          \E i \in 1..Len(quoteCalls) : quoteCalls[i] \in {"fetch", "json"}

\* The placeholder of the second quote call is showing after the first call has
\* returned; the second call has its response and awaits the body.
C18_Witness ==
    /\ quoteCalls = <<"fulfilled", "json">>
    /\ quoteDisplay = QuoteLoading

\* The converse does not hold: here the second joke call awaits its response
\* while the container shows the first call's outcome, which arrived after the
\* second call's placeholder was written.
C18_OlderOutcomeInFlight ==
    /\ jokeCalls = <<"fulfilled", "fetch">>
    /\ jokeDisplay = JokeErrorText
    /\ jokeHist.last = JokeErrorText

\* C19: when every request eventually yields a response or a failure and the
\* user stops starting fetches, each container eventually stops showing its
\* loading placeholder for good; from then on a container whose fetcher was
\* invoked shows what the last call to settle wrote, a result or a message.
C19_LoadingEnds ==
    /\ <>[](/\ jokeDisplay # JokeLoading
            /\ jokeHist.started > 0 => jokeDisplay = jokeHist.last /\ jokeDisplay # NoOutcome)
    /\ <>[](/\ quoteDisplay # QuoteLoading
            /\ quoteHist.started > 0 => quoteDisplay = quoteHist.last /\ quoteDisplay # NoOutcome)

\* Both fetchers were invoked and both calls have returned: a joke is showing in
\* one container and an error message in the other.
C19_Witness ==
    /\ jokeCalls = <<"fulfilled">> /\ jokeDisplay = JokeHtml("a", "b")
    /\ quoteCalls = <<"fulfilled">> /\ quoteDisplay = QuoteErrorText(AuthErrorMsg)

\* C20: the fetchers and the feedback button do not interfere. A step in which a
\* joke fetch starts or moves on (a joke call or the joke history changes)
\* leaves the quote container, the button's label and classes and the pending
\* timers as they were; the same for a quote fetch and the joke container; and a
\* step of the button or its timers leaves both containers and the screens'
\* visibility as they were. So a container changes only in a step of its own
\* fetcher.
C20_NoInterference ==
    [][/\ (jokeCalls' # jokeCalls \/ jokeHist' # jokeHist) =>
             /\ quoteDisplay' = quoteDisplay
             /\ funnyLabel' = funnyLabel /\ funnyClasses' = funnyClasses /\ timers' = timers
       /\ (quoteCalls' # quoteCalls \/ quoteHist' # quoteHist) =>
             /\ jokeDisplay' = jokeDisplay
             /\ funnyLabel' = funnyLabel /\ funnyClasses' = funnyClasses /\ timers' = timers
       /\ (funnyLabel' # funnyLabel \/ funnyClasses' # funnyClasses \/ timers' # timers) =>
             /\ jokeDisplay' = jokeDisplay
             /\ quoteDisplay' = quoteDisplay
             /\ hidden' = hidden
       /\ jokeDisplay' # jokeDisplay => jokeCalls' # jokeCalls
       /\ quoteDisplay' # quoteDisplay => (quoteCalls' # quoteCalls \/ quoteHist' # quoteHist)]_vars

\* A joke fetch has completed and the feedback button was clicked afterwards, its
\* timer pending: the joke is still showing and the quote container is untouched.
C20_Witness ==
    /\ jokeCalls = <<"fulfilled">> /\ jokeDisplay = JokeHtml("a", "b")
    /\ funnyLabel = AckLabel /\ Len(timers) = 1
    /\ quoteDisplay = InitialContent

====
